---- MODULE Spec2Model ----
(***************************************************************************)
(* Annotation raster codec of v7labs/customer-enablement:                  *)
(*   - decode_rle / process_and_flip_image of the two JSON -> NIfTI         *)
(*     converters (local_file_manipulation/),                              *)
(*   - the inline dense_rle decoder of darwin_json/mask_class_conversion,   *)
(*   - Array_AND / Array_OR / main of darwin_json/iou.                      *)
(*                                                                         *)
(* A numpy array is modelled as [shape |-> <<rows, columns>>, data |-> the  *)
(* row-major (C order) sequence of its cells]; sequences are 1-based, so    *)
(* the 0-based offset p of the code is position p + 1 of data.              *)
(*                                                                         *)
(* The specifications share the variables:                                 *)
(*   Spec       lines 89-125 of process_and_flip_image on one item,         *)
(*   SpecVolume the whole of process_and_flip_image, label file included,   *)
(*   SpecRLE    the RLE decoders (and the encoder the design asks for),     *)
(*   SpecIoU    main of iou_calculator on two arbitrary masks,              *)
(*   SpecRaster gen_mask on one polygon,                                    *)
(*   SpecTrace  convert_png_to_darwin_json on one image,                    *)
(*   SpecBatch  convert on a directory of items,                            *)
(*   SpecFill   fill_instance_ids on one annotation file,                   *)
(*   SpecTrim   Trimmer.trim on one export.                                 *)
(***************************************************************************)
EXTENDS Integers, Sequences, FiniteSets, TLC

VARIABLES
    \* ---- process_and_flip_image (itk_snap_convert_json_to_nifti.py)
    pc,                    \* position in process_and_flip_image
    annotations,           \* data["annotations"]: sequence of [id, name]
    frame_count,           \* slot["frame_count"]
    global_mapping,        \* annotation id -> 1-based index
    global_mapping_names,  \* index -> annotation name
    ci,                    \* enumerate() position of the global_mapping comprehension
    ai,                    \* position of `for annotation in data["annotations"]`
    frame_number,          \* position of `for frame_number in range(frame_count)`
    masks,                 \* the list of 2D masks collected so far
    mask_3d,               \* the stacked, transposed and flipped volume
    error,                 \* the exception that ended the run, "" if none
    visited,               \* history: the frames read so far and what they held
    affine,                \* slot["metadata"]["affine"]: [raw, value process_affine gave]
    original_affine,       \* slot["metadata"]["original_affine"], likewise
    img,                   \* the nib.Nifti1Image built from mask_3d
    nifti_file,            \* the file nib.save wrote
    label_file,            \* the ITK-SNAP label file: whether it was opened, its lines
    li,                    \* position of `for id, i in global_mapping.items()`
    \* ---- RLE codec
    rpc,                   \* position in the codec run
    m_in,                  \* the mask handed to encode
    rle_data,              \* the dense_rle list [v0, c0, v1, c1, ...]
    shape,                 \* <<height, width>> handed to the decoder
    decoded,               \* outcome of decode_rle
    total_pixels,          \* raster_layer["total_pixels"] read by mask_class_conversion
    decoded_inline,        \* outcome of the inline decoder of mask_class_conversion
    \* ---- IoU
    ipc,                   \* position in main
    mask_1, mask_2,        \* the two masks main compares
    Intersection,          \* Array_AND(mask_1, mask_2)[1]
    Overlap,               \* Array_OR(mask_1, mask_2)[1]
    IOU_value,             \* <<Intersection, Overlap>>: the quotient main returns
    ierror,                \* the exception that ended main, "" if none
    \* ---- gen_mask (convert_darwin_json_to_mask.py, iou_calculator.py)
    gpc,                   \* position in gen_mask
    polygon,               \* the polygon handed to gen_mask: sequence of [x, y]
    sequences,             \* what convert_polygons_to_sequences returned
    gmask,                 \* the mask gen_mask draws into and returns
    gerror,                \* the exception that ended gen_mask, "" if none
    \* ---- convert_png_to_darwin_json (png_to_complex_darwin_json.py)
    tpc,                   \* position in convert_png_to_darwin_json
    masked_image,          \* Image.open(filename).convert("L") as an array
    tmask,                 \* mask: the binarised image
    external,              \* the external paths find_contours returned
    internal,              \* the internal paths find_contours returned
    tk,                    \* position of the for loop over external / internal
    paths,                 \* the list convert_png_to_darwin_json builds and returns
    \* ---- convert (itk_snap_convert_json_to_nifti.py)
    bpc,                   \* position in convert
    batch,                 \* the *.json files of input_dir, each by the kind of its item
    bk,                    \* position of `for json_path in glob.glob(...)`
    converted,             \* the positions of the files whose volume was written
    berror,                \* the exception that ended convert, "" if none
    \* ---- fill_instance_ids (fill_instance_ids_video.py), one annotation file
    fpc,                   \* position in fill_instance_ids
    fdata,                 \* data["annotations"]: per annotation the instance id of each
                           \* frame in the order of the frames dict, 0 = no "instance_id"
    fa,                    \* position of `for annotation in data["annotations"]`
    instance_id,           \* the local instance_id, 0 for ""
    frames_missing_instance_id,  \* the frame positions collected by the scan
    missing_id_count,      \* the counter printed at line 142
    api_next,              \* the id the API hands out at the next request
    adjusted,              \* the annotations dumped to adjusted_annotations_*/
    \* ---- Trimmer.trim (trim_annotations_to_border_video.py)
    xpc,                   \* position in trim
    export_annotations,    \* export.get("annotations", []): per annotation its frames
    annotations_inside_image,  \* the annotations the first loop keeps
    new_annotations,       \* the annotations the second loop has trimmed
    xk,                    \* position of the running for loop
    trimmed_file           \* new_export["annotations"] as written to the output file

tailVars == <<affine, original_affine, img, nifti_file, label_file, li>>
itemVars == <<pc, annotations, frame_count, global_mapping, global_mapping_names,
              ci, ai, frame_number, masks, mask_3d, error, visited, tailVars>>
rleVars == <<rpc, m_in, rle_data, shape, decoded, total_pixels, decoded_inline>>
iouVars == <<ipc, mask_1, mask_2, Intersection, Overlap, IOU_value, ierror>>
rasterVars == <<gpc, polygon, sequences, gmask, gerror>>
traceVars == <<tpc, masked_image, tmask, external, internal, tk, paths>>
batchVars == <<bpc, batch, bk, converted, berror>>
fillVars == <<fpc, fdata, fa, instance_id, frames_missing_instance_id, missing_id_count,
              api_next, adjusted>>
trimVars == <<xpc, export_annotations, annotations_inside_image, new_annotations, xk,
              trimmed_file>>
extVars == <<rasterVars, traceVars, batchVars, fillVars, trimVars>>
vars == <<itemVars, rleVars, iouVars, extVars>>

----------------------------------------------------------------------------
(* Bounds *)

\* longest annotation list of an item
MaxAnn == 3
\* largest frame_count of an item
MaxFrames == 2
\* most (value, count) pairs of a dense_rle list given to the codec
MaxRuns == 2
\* largest count of one run given to the codec
MaxCount == 3

\* <<height, width>> of the masks given to the codec
Shapes == {<<1, 2>>, <<2, 1>>, <<2, 2>>, <<0, 2>>}
\* cell and run values given to the codec: both sides of the uint8 limit
CellValues == {0, 1, 2, 255, 256}
\* <<height, width>> of the masks given to Array_AND / Array_OR
IoUShapes == {<<1, 1>>, <<1, 2>>, <<2, 1>>, <<2, 2>>}
\* cell values of the masks given to Array_AND / Array_OR
IoUValues == {0, 1, 2}

----------------------------------------------------------------------------
(* numpy arrays *)

\* np.zeros(n, dtype=np.uint8)
Zeros(n) == [p \in 1..n |-> 0]

\* arr.reshape(height, width) of a flat array of height * width cells
Reshape(flat, height, width) == [shape |-> <<height, width>>, data |-> flat]

\* the array standing in the outcome of a call that raised
NoArray == [shape |-> <<0, 0>>, data |-> <<>>]

\* all sequences over S of length 0..n
SeqsUpTo(S, n) == UNION {[1..k -> S] : k \in 0..n}

\* all arrays of the given shapes over the given cell values
Arrays(shapes, values) ==
    UNION {{[shape |-> s, data |-> d] : d \in [1..(s[1] * s[2]) -> values]} : s \in shapes}

\* storing a Python int into a uint8 array under numpy < 2: it wraps
CastU8(value) == value % 256

\* mask[pos : pos + length] = value, the slice clipped to the array as numpy does
SliceAssign(mask, pos, length, value) ==
    [p \in 1..Len(mask) |-> IF p > pos /\ p <= pos + length THEN value ELSE mask[p]]

----------------------------------------------------------------------------
(* RLE codec *)

\* a dense_rle list holds a value above 255 (does not fit np.uint8)
OutOfU8(rle) == \E k \in 1..Len(rle) : k % 2 = 1 /\ rle[k] > 255

\* converting_json_to_nifti_itk_snap.py, decode_rle: the loop of lines 33-37,
\* i the (1-based) position of the value of the current pair
RECURSIVE decode_rle_loop(_, _, _, _)
decode_rle_loop(rle, i, pos, mask) ==
    IF i > Len(rle) THEN mask
    ELSE LET value == rle[i]
             length == rle[i + 1]
         IN decode_rle_loop(rle, i + 2, pos + length,
                            SliceAssign(mask, pos, length, CastU8(value)))

\* decode_rle(rle_data, width, height) where the uint8 store wraps
decode_rle(rle, width, height) ==
    Reshape(decode_rle_loop(rle, 1, 0, Zeros(width * height)), height, width)

\* What decode_rle can do on the builds there are: numpy < 2 wraps a value that
\* does not fit uint8, numpy >= 2 raises OverflowError on it.
decode_rle_outcomes(rle, width, height) ==
    {[status |-> "ok", mask |-> decode_rle(rle, width, height)]}
    \cup (IF OutOfU8(rle) THEN {[status |-> "OverflowError", mask |-> NoArray]} ELSE {})

\* the walk of lines 75-80 with a run of value 0 skipped whole: its count is not
\* added to current_position
RECURSIVE inline_loop_skip(_, _, _, _)
inline_loop_skip(dense_rle, i, current_position, flat_mask) ==
    IF i > Len(dense_rle) THEN flat_mask
    ELSE LET value == dense_rle[i]
             count == dense_rle[i + 1]
         IN IF value # 0
            THEN inline_loop_skip(dense_rle, i + 2, current_position + count,
                                  SliceAssign(flat_mask, current_position, count,
                                              CastU8(value)))
            ELSE inline_loop_skip(dense_rle, i + 2, current_position, flat_mask)

\* mask_class_conversion.py lines 72-80: the same walk, the store skipped for value 0
RECURSIVE inline_loop(_, _, _, _)
inline_loop(dense_rle, i, current_position, flat_mask) ==
    IF i > Len(dense_rle) THEN flat_mask
    ELSE LET value == dense_rle[i]
             count == dense_rle[i + 1]
         IN inline_loop(dense_rle, i + 2, current_position + count,
                        IF value # 0
                        THEN SliceAssign(flat_mask, current_position, count, CastU8(value))
                        ELSE flat_mask)

\* mask_class_conversion.py lines 72-83: flat_mask of total_pixels cells, then
\* reshape((height, width)), which raises ValueError when the sizes differ
inline_decode_outcomes(dense_rle, width, height, total) ==
    (IF total = height * width
     THEN {[status |-> "ok",
            mask |-> Reshape(inline_loop(dense_rle, 1, 0, Zeros(total)), height, width)]}
     ELSE {[status |-> "ValueError", mask |-> NoArray]})
    \cup (IF OutOfU8(dense_rle) THEN {[status |-> "OverflowError", mask |-> NoArray]} ELSE {})

\* encode of the design (section 4.1): walk row-major, merge adjacent equal values
RECURSIVE encode_loop(_, _, _)
encode_loop(data, p, out) ==
    IF p > Len(data) THEN out
    ELSE IF Len(out) > 0 /\ out[Len(out) - 1] = data[p]
         THEN encode_loop(data, p + 1, [out EXCEPT ![Len(out)] = @ + 1])
         ELSE encode_loop(data, p + 1, out \o <<data[p], 1>>)

encode(mask) == encode_loop(mask.data, 1, <<>>)

\* the dense_rle lists of at most n pairs: [v0, c0, v1, c1, ...]
RECURSIVE Flat(_)
Flat(pairs) == IF pairs = <<>> THEN <<>> ELSE Head(pairs) \o Flat(Tail(pairs))

Streams(values, n, maxCount) ==
    {Flat(ps) : ps \in SeqsUpTo(values \X (0..maxCount), n)}

Sum2(rle) == LET RECURSIVE S(_)
                 S(i) == IF i > Len(rle) THEN 0 ELSE rle[i + 1] + S(i + 2)
             IN S(1)

----------------------------------------------------------------------------
(* Mask set algebra: iou_utils.py *)

\* Flatten(arr): arr.flatten()
Flatten(arr) == arr.data

\* numpy broadcasting of two 1-D operands: equal lengths, or one of length 1
Broadcastable(flat_1, flat_2) ==
    Len(flat_1) = Len(flat_2) \/ Len(flat_1) = 1 \/ Len(flat_2) = 1

BroadcastLen(flat_1, flat_2) == IF Len(flat_1) = 1 THEN Len(flat_2) ELSE Len(flat_1)

BroadcastAt(flat, p) == IF Len(flat) = 1 THEN flat[1] ELSE flat[p]

\* a & b of two non-negative ints
RECURSIVE BitAnd(_, _)
BitAnd(a, b) ==
    IF a = 0 \/ b = 0 THEN 0
    ELSE (a % 2) * (b % 2) + 2 * BitAnd(a \div 2, b \div 2)

\* np.bitwise_and in the place of np.logical_and: labels 1 and 2 share no bit
logical_and_bitwise(flat_1, flat_2) ==
    [p \in 1..BroadcastLen(flat_1, flat_2) |->
        BitAnd(BroadcastAt(flat_1, p), BroadcastAt(flat_2, p)) # 0]

\* np.logical_and(flat_1, flat_2): the truth value of a cell is (cell != 0)
logical_and(flat_1, flat_2) ==
    [p \in 1..BroadcastLen(flat_1, flat_2) |->
        BroadcastAt(flat_1, p) # 0 /\ BroadcastAt(flat_2, p) # 0]

\* np.logical_or(flat_1, flat_2)
logical_or(flat_1, flat_2) ==
    [p \in 1..BroadcastLen(flat_1, flat_2) |->
        BroadcastAt(flat_1, p) # 0 \/ BroadcastAt(flat_2, p) # 0]

\* np.count_nonzero of a boolean array
count_nonzero(arr) == Cardinality({p \in 1..Len(arr) : arr[p]})

\* Array_AND(arr1, arr2): (and_array, count_and_array), or the ValueError numpy
\* raises when the flattened operands cannot be broadcast together
Array_AND(arr1, arr2) ==
    LET flat_1 == Flatten(arr1)
        flat_2 == Flatten(arr2)
    IN IF Broadcastable(flat_1, flat_2)
       THEN [status |-> "ok", array |-> logical_and(flat_1, flat_2),
             count |-> count_nonzero(logical_and(flat_1, flat_2))]
       ELSE [status |-> "ValueError", array |-> <<>>, count |-> 0]

\* Array_OR returning the size of or_array instead of its non-zero count
Array_OR_size(arr1, arr2) ==
    LET flat_1 == Flatten(arr1)
        flat_2 == Flatten(arr2)
    IN IF Broadcastable(flat_1, flat_2)
       THEN [status |-> "ok", array |-> logical_or(flat_1, flat_2),
             count |-> Len(logical_or(flat_1, flat_2))]
       ELSE [status |-> "ValueError", array |-> <<>>, count |-> 0]

\* Array_OR(arr1, arr2): (or_array, count_or_array), or ValueError
Array_OR(arr1, arr2) ==
    LET flat_1 == Flatten(arr1)
        flat_2 == Flatten(arr2)
    IN IF Broadcastable(flat_1, flat_2)
       THEN [status |-> "ok", array |-> logical_or(flat_1, flat_2),
             count |-> count_nonzero(logical_or(flat_1, flat_2))]
       ELSE [status |-> "ValueError", array |-> <<>>, count |-> 0]

----------------------------------------------------------------------------
(* Items: the input of process_and_flip_image *)

RasterLayer == "__raster_layer__"

\* the annotations an item is built from: two mask objects and a raster layer
Annots == {[id |-> "a", name |-> "liver"],
           [id |-> "b", name |-> "spleen"],
           [id |-> "r", name |-> RasterLayer]}

RasterCount(l) == Cardinality({k \in 1..Len(l) : l[k].name = RasterLayer})

\* data["annotations"]: every list of at most MaxAnn annotations with at most one
\* raster layer, and two lists with two raster layers
AnnLists ==
    {l \in SeqsUpTo(Annots, MaxAnn) : RasterCount(l) <= 1}
    \cup {<<[id |-> "r", name |-> RasterLayer], [id |-> "r", name |-> RasterLayer]>>,
          <<[id |-> "a", name |-> "liver"], [id |-> "r", name |-> RasterLayer],
            [id |-> "r", name |-> RasterLayer]>>}

\* slot["width"], slot["height"]
Slot == [width |-> 2, height |-> 1]

\* a Python dict is a function on its keys
EmptyDict == [k \in {} |-> 0]

Put(d, k, v) == [x \in (DOMAIN d) \cup {k} |-> IF x = k THEN v ELSE d[x]]

\* raster_layer["dense_rle"] of a frame of the 2 x 1 slot: one run, a run and a
\* background run, and a list that is too short
FrameStreams == {<<1, 2>>, <<2, 1, 0, 1>>, <<1, 1>>}

\* raster_layer["mask_annotation_ids_mapping"] of a frame: annotation id -> local
\* mask value. One local value names one object (the data model's local mapping is
\* a function of the local value), so the dicts are injective.
FrameMappings == {EmptyDict,
                  "a" :> 1, "a" :> 2,
                  ("a" :> 1) @@ ("b" :> 2),
                  ("a" :> 2) @@ ("b" :> 1),
                  ("a" :> 0) @@ ("b" :> 2)}

----------------------------------------------------------------------------
(* process_and_flip_image: itk_snap_convert_json_to_nifti.py *)

\* zeroes = np.zeros((height, width), dtype=np.uint8)
zeroes == Reshape(Zeros(Slot.height * Slot.width), Slot.height, Slot.width)

\* frame_mapping that leaves the local values as they are (no global lookup)
frame_mapping_local(mask_annotation_ids_mapping, gm) ==
    [v \in {mask_annotation_ids_mapping[k] : k \in DOMAIN mask_annotation_ids_mapping}
           \cup {0} |-> v]

\* lines 108-111: {v: global_mapping[k] for k, v in mapping.items()} | {0: 0}
frame_mapping(mask_annotation_ids_mapping, gm) ==
    [v \in {mask_annotation_ids_mapping[k] : k \in DOMAIN mask_annotation_ids_mapping}
           \cup {0} |->
        IF v = 0 THEN 0
        ELSE gm[CHOOSE k \in DOMAIN mask_annotation_ids_mapping :
                    mask_annotation_ids_mapping[k] = v]]

\* decode_rle of itk_snap_convert_json_to_nifti.py, lines 36-40: value is looked up
\* in mapping before it is stored. Yields <<status, mask>>; a value that is no key
\* of mapping raises KeyError at its pair.
RECURSIVE decode_rle_itk_loop(_, _, _, _, _)
decode_rle_itk_loop(rle, i, pos, mask, mapping) ==
    IF i > Len(rle) THEN [status |-> "ok", flat |-> mask]
    ELSE IF rle[i] \notin DOMAIN mapping THEN [status |-> "KeyError", flat |-> mask]
    ELSE LET value == mapping[rle[i]]
             length == rle[i + 1]
         IN decode_rle_itk_loop(rle, i + 2, pos + length,
                                SliceAssign(mask, pos, length, CastU8(value)), mapping)

\* some looked-up value does not fit np.uint8
MappedOutOfU8(rle, mapping) ==
    \E k \in 1..Len(rle) : k % 2 = 1 /\ rle[k] \in DOMAIN mapping /\ mapping[rle[k]] > 255

\* decode_rle writing into one buffer kept across the calls (the mask of the frame
\* before) instead of a fresh np.zeros
decode_rle_itk_reuse(rle, width, height, mapping) ==
    LET buffer == IF masks = <<>> THEN Zeros(width * height) ELSE masks[Len(masks)].data
        r == decode_rle_itk_loop(rle, 1, 0, buffer, mapping)
    IN {IF r.status = "ok"
        THEN [status |-> "ok", mask |-> Reshape(r.flat, height, width)]
        ELSE [status |-> r.status, mask |-> NoArray]}

\* decode_rle(rle_data, width, height, mapping) on the builds there are
decode_rle_itk_outcomes(rle, width, height, mapping) ==
    LET r == decode_rle_itk_loop(rle, 1, 0, Zeros(width * height), mapping)
    IN {IF r.status = "ok"
        THEN [status |-> "ok", mask |-> Reshape(r.flat, height, width)]
        ELSE [status |-> r.status, mask |-> NoArray]}
       \cup (IF MappedOutOfU8(rle, mapping)
             THEN {[status |-> "OverflowError", mask |-> NoArray]} ELSE {})

\* np.stack(ms): the 2D masks along a new leading axis, shape (len(ms), height, width);
\* a 3D array keeps its cells under their 0-based index triples
np_stack(ms) ==
    LET n == Len(ms)
        h == ms[1].shape[1]
        w == ms[1].shape[2]
    IN [shape |-> <<n, h, w>>,
        data |-> [v \in (0..(n - 1)) \X (0..(h - 1)) \X (0..(w - 1)) |->
                    ms[v[1] + 1].data[v[2] * w + v[3] + 1]]]

\* np.transpose(arr, axes): axis k of the result is axis axes[k] of arr
np_transpose(arr, axes) ==
    LET at(d) == CHOOSE k \in 1..3 : axes[k] = d
    IN [shape |-> <<arr.shape[axes[1] + 1], arr.shape[axes[2] + 1], arr.shape[axes[3] + 1]>>,
        data |-> [v \in (0..(arr.shape[axes[1] + 1] - 1)) \X (0..(arr.shape[axes[2] + 1] - 1))
                          \X (0..(arr.shape[axes[3] + 1] - 1)) |->
                    arr.data[<<v[at(0)], v[at(1)], v[at(2)]>>]]]

\* np.flip(arr, (0, 1, 2)): every axis reversed
np_flip(arr) ==
    [shape |-> arr.shape,
     data |-> [v \in DOMAIN arr.data |->
                 arr.data[<<arr.shape[1] - 1 - v[1], arr.shape[2] - 1 - v[2],
                            arr.shape[3] - 1 - v[3]>>]]]

\* lines 121-125: np.stack, np.transpose(., (2, 1, 0)), np.flip(., (0, 1, 2))
stack_transpose_flip(ms) == np_flip(np_transpose(np_stack(ms), <<2, 1, 0>>))

NoVolume == [shape |-> <<0, 0, 0>>, data |-> EmptyDict]

\* global_mapping_step that keeps the index an id already has (first occurrence wins)
global_mapping_step_first(gm, annotation, i) ==
    IF annotation["id"] \in DOMAIN gm THEN gm ELSE Put(gm, annotation["id"], i + 1)

\* line 90: one step of the global_mapping comprehension, i the 0-based enumerate index
global_mapping_step(gm, annotation, i) == Put(gm, annotation["id"], i + 1)

\* lines 92-94: {i + 1: annotation["name"] ...}, a dict on 1..len(annotations)
names_of(anns) == [i \in 1..Len(anns) |-> anns[i].name]

----------------------------------------------------------------------------
(* Idle values: the variables of the specifications that are not running *)

NoOutcome == [status |-> "", mask |-> NoArray]

\* no image yet: nothing built by nib.Nifti1Image, nothing written by nib.save
NoImage == [dataobj |-> NoVolume, affine |-> "", reoriented |-> FALSE]

\* the label file before open(label_file_path, "w")
NoFile == [opened |-> FALSE, lines |-> <<>>]

\* an affine of the metadata that the run never looks at
Unread == [raw |-> "unread", value |-> "unread"]

\* the part of the state that lines 88 and 123-151 write, before they run
TailStart ==
    /\ affine = Unread /\ original_affine = Unread
    /\ img = NoImage /\ nifti_file = NoImage /\ label_file = NoFile /\ li = 0

ItemIdle ==
    /\ pc = "idle" /\ annotations = <<>> /\ frame_count = 0
    /\ global_mapping = EmptyDict /\ global_mapping_names = <<>>
    /\ ci = 0 /\ ai = 0 /\ frame_number = 0
    /\ masks = <<>> /\ mask_3d = NoVolume /\ error = "" /\ visited = <<>>
    /\ TailStart

RleIdle ==
    /\ rpc = "idle" /\ m_in = NoArray /\ rle_data = <<>> /\ shape = <<0, 0>>
    /\ decoded = NoOutcome /\ total_pixels = 0 /\ decoded_inline = NoOutcome

IoUIdle ==
    /\ ipc = "idle" /\ mask_1 = NoArray /\ mask_2 = NoArray
    /\ Intersection = 0 /\ Overlap = 0 /\ IOU_value = <<0, 0>> /\ ierror = ""

RasterIdle ==
    /\ gpc = "idle" /\ polygon = <<>> /\ sequences = <<>> /\ gmask = NoArray /\ gerror = ""

TraceIdle ==
    /\ tpc = "idle" /\ masked_image = NoArray /\ tmask = NoArray
    /\ external = <<>> /\ internal = <<>> /\ tk = 0 /\ paths = <<>>

BatchIdle ==
    /\ bpc = "idle" /\ batch = <<>> /\ bk = 0 /\ converted = {} /\ berror = ""

FillIdle ==
    /\ fpc = "idle" /\ fdata = <<>> /\ fa = 0 /\ instance_id = 0
    /\ frames_missing_instance_id = <<>> /\ missing_id_count = 0
    /\ api_next = 0 /\ adjusted = <<>>

TrimIdle ==
    /\ xpc = "idle" /\ export_annotations = <<>> /\ annotations_inside_image = <<>>
    /\ new_annotations = <<>> /\ xk = 0 /\ trimmed_file = <<>>

ExtIdle == RasterIdle /\ TraceIdle /\ BatchIdle /\ FillIdle /\ TrimIdle

----------------------------------------------------------------------------
(* Spec: one run of process_and_flip_image *)

Init ==
    /\ pc = "collect"
    /\ annotations \in AnnLists
    /\ frame_count \in 0..MaxFrames
    /\ global_mapping = EmptyDict /\ global_mapping_names = <<>>
    /\ ci = 0 /\ ai = 0 /\ frame_number = 0
    /\ masks = <<>> /\ mask_3d = NoVolume /\ error = "" /\ visited = <<>>
    /\ TailStart
    /\ RleIdle /\ IoUIdle /\ ExtIdle

\* lines 89-91, one annotation of the comprehension
CollectStep ==
    /\ pc = "collect" /\ ci < Len(annotations)
    /\ global_mapping' = global_mapping_step(global_mapping, annotations[ci + 1], ci)
    /\ ci' = ci + 1
    /\ UNCHANGED <<pc, annotations, frame_count, global_mapping_names, ai, frame_number,
                   masks, mask_3d, error, visited, tailVars, rleVars, iouVars, extVars>>

\* the loop of line 96 started before the comprehension of lines 89-91 is through
CollectNames_early ==
    /\ pc = "collect"
    /\ global_mapping_names' = names_of(annotations)
    /\ pc' = "annotations"
    /\ UNCHANGED <<annotations, frame_count, global_mapping, ci, ai, frame_number,
                   masks, mask_3d, error, visited, tailVars, rleVars, iouVars, extVars>>

\* lines 92-94, then the loop of line 96 starts
CollectNames ==
    /\ pc = "collect" /\ ci = Len(annotations)
    /\ global_mapping_names' = names_of(annotations)
    /\ pc' = "annotations"
    /\ UNCHANGED <<annotations, frame_count, global_mapping, ci, ai, frame_number,
                   masks, mask_3d, error, visited, tailVars, rleVars, iouVars, extVars>>

\* lines 96-97: an annotation that is not the raster layer is passed over
SkipAnnotation ==
    /\ pc = "annotations" /\ ai < Len(annotations)
    /\ annotations[ai + 1].name # RasterLayer
    /\ ai' = ai + 1
    /\ UNCHANGED <<pc, annotations, frame_count, global_mapping, global_mapping_names, ci,
                   frame_number, masks, mask_3d, error, visited, tailVars, rleVars, iouVars, extVars>>

\* lines 97-98: a raster layer annotation starts the loop over the frame numbers
EnterRasterLayer ==
    /\ pc = "annotations" /\ ai < Len(annotations)
    /\ annotations[ai + 1].name = RasterLayer
    /\ ai' = ai + 1
    /\ frame_number' = 0
    /\ pc' = "frames"
    /\ UNCHANGED <<annotations, frame_count, global_mapping, global_mapping_names, ci,
                   masks, mask_3d, error, visited, tailVars, rleVars, iouVars, extVars>>

Visit(kind, rle, mapping, out) ==
    Append(visited, [ann |-> ai, frame |-> frame_number, kind |-> kind,
                     rle |-> rle, mapping |-> mapping, out |-> out])

\* lines 100, 114-115: the frame is no key of annotation["frames"]
FrameAbsent ==
    /\ pc = "frames" /\ frame_number < frame_count
    /\ masks' = Append(masks, zeroes)
    /\ visited' = Visit("absent", <<>>, EmptyDict, Len(masks) + 1)
    /\ frame_number' = frame_number + 1
    /\ UNCHANGED <<pc, annotations, frame_count, global_mapping, global_mapping_names, ci,
                   ai, mask_3d, error, tailVars, rleVars, iouVars, extVars>>

\* lines 100-102: the frame is there and has no "raster_layer": nothing is appended
FrameWithoutRasterLayer ==
    /\ pc = "frames" /\ frame_number < frame_count
    /\ visited' = Visit("no_raster_layer", <<>>, EmptyDict, 0)
    /\ frame_number' = frame_number + 1
    /\ UNCHANGED <<pc, annotations, frame_count, global_mapping, global_mapping_names, ci,
                   ai, masks, mask_3d, error, tailVars, rleVars, iouVars, extVars>>

\* lines 103-113: the frame has a raster layer
FrameRemap ==
    /\ pc = "frames" /\ frame_number < frame_count
    /\ \E dense_rle \in FrameStreams, mask_annotation_ids_mapping \in FrameMappings :
          IF \E k \in DOMAIN mask_annotation_ids_mapping : k \notin DOMAIN global_mapping
          THEN \* global_mapping[k] raises KeyError (line 109)
               /\ error' = "KeyError"
               /\ pc' = "raised"
               /\ visited' = Visit("raster_layer", dense_rle, mask_annotation_ids_mapping, 0)
               /\ UNCHANGED <<masks, frame_number>>
          ELSE \E r \in decode_rle_itk_outcomes(
                            dense_rle, Slot.width, Slot.height,
                            frame_mapping(mask_annotation_ids_mapping, global_mapping)) :
                 IF r.status = "ok"
                 THEN /\ masks' = Append(masks, r.mask)
                      /\ visited' = Visit("raster_layer", dense_rle,
                                          mask_annotation_ids_mapping, Len(masks) + 1)
                      /\ frame_number' = frame_number + 1
                      /\ UNCHANGED <<pc, error>>
                 ELSE /\ error' = r.status
                      /\ pc' = "raised"
                      /\ visited' = Visit("raster_layer", dense_rle,
                                          mask_annotation_ids_mapping, 0)
                      /\ UNCHANGED <<masks, frame_number>>
    /\ UNCHANGED <<annotations, frame_count, global_mapping, global_mapping_names, ci, ai,
                   mask_3d, tailVars, rleVars, iouVars, extVars>>

\* line 98: range(frame_count) is exhausted
EndFrames ==
    /\ pc = "frames" /\ frame_number = frame_count
    /\ pc' = "annotations"
    /\ UNCHANGED <<annotations, frame_count, global_mapping, global_mapping_names, ci, ai,
                   frame_number, masks, mask_3d, error, visited, tailVars, rleVars, iouVars, extVars>>

\* lines 117-119 without the return: the run goes on to the label file
NoMasks_legend ==
    /\ pc = "annotations" /\ ai = Len(annotations)
    /\ masks = <<>>
    /\ label_file' = [opened |-> TRUE, lines |-> <<>>]
    /\ li' = 0
    /\ pc' = "legend"
    /\ UNCHANGED <<annotations, frame_count, global_mapping, global_mapping_names, ci, ai,
                   frame_number, masks, mask_3d, error, visited, affine, original_affine,
                   img, nifti_file, rleVars, iouVars, extVars>>

\* lines 117-119: no mask was collected
NoMasks ==
    /\ pc = "annotations" /\ ai = Len(annotations)
    /\ masks = <<>>
    /\ pc' = "no_masks"
    /\ UNCHANGED <<annotations, frame_count, global_mapping, global_mapping_names, ci, ai,
                   frame_number, masks, mask_3d, error, visited, tailVars, rleVars, iouVars, extVars>>

\* lines 121-125: the masks are stacked into the volume
Stack ==
    /\ pc = "annotations" /\ ai = Len(annotations)
    /\ masks # <<>>
    /\ mask_3d' = stack_transpose_flip(masks)
    /\ pc' = "stacked"
    /\ UNCHANGED <<annotations, frame_count, global_mapping, global_mapping_names, ci, ai,
                   frame_number, masks, error, visited, tailVars, rleVars, iouVars, extVars>>

Next ==
    \/ CollectStep \/ CollectNames
    \/ SkipAnnotation \/ EnterRasterLayer
    \/ FrameAbsent \/ FrameWithoutRasterLayer \/ FrameRemap \/ EndFrames
    \/ NoMasks \/ Stack

Spec == Init /\ [][Next]_vars

----------------------------------------------------------------------------
(* SpecVolume: process_and_flip_image from its first to its last line, on     *)
(* items with long annotation lists: Spec's actions, and around them          *)
(* process_metadata (line 88) and lines 123-151 (image, reorientation, save,  *)
(* label file).                                                               *)
(*                                                                            *)
(* An affine of the metadata is kept by its kind:                             *)
(*   "absent"      the key is missing (metadata.get gives None),              *)
(*   "other"       a JSON value that is neither a string nor a list,          *)
(*   "unparsable"  a string ast.literal_eval rejects, or a list astype(float) *)
(*                 rejects,                                                   *)
(*   "RAS", "LPS"  an invertible 4x4 matrix of that orientation,              *)
(*   "singular"    a 4x4 matrix that is not invertible,                       *)
(*   "shape"       an array that is not 4x4.                                  *)

\* most annotations that precede the raster layer in the items of SpecVolume
MaxFillers == 7

AffineKinds == {"absent", "other", "unparsable", "RAS", "LPS", "singular", "shape"}

\* ids of the annotations that precede the raster layer
FillerIds == <<"o1", "o2", "o3", "o4", "o5", "o6", "o7", "o8", "o9">>

\* k annotations no frame refers to, then the raster layer, then "a" and "b"
VolumeList(k) ==
    [j \in 1..k |-> [id |-> FillerIds[j], name |-> "kidney"]]
    \o <<[id |-> "r", name |-> RasterLayer],
         [id |-> "a", name |-> "liver"], [id |-> "b", name |-> "spleen"]>>

\* an item without a raster layer annotation
NoRasterList == <<[id |-> "a", name |-> "liver"], [id |-> "b", name |-> "spleen"]>>

VolumeLists == {VolumeList(k) : k \in 0..MaxFillers} \cup {NoRasterList}

\* colormaps.get("Set1").colors, each component as int(c * 255)
Set1 == <<<<228, 26, 28>>, <<55, 126, 184>>, <<77, 175, 74>>, <<152, 78, 163>>,
          <<255, 127, 0>>, <<255, 255, 51>>, <<166, 86, 40>>, <<247, 129, 191>>,
          <<153, 153, 153>>>>

\* lines 66-77: None for a value that is neither str nor list, an exception for
\* one that cannot be evaluated, else the array
process_affine(raw) ==
    IF raw \in {"absent", "other"} THEN [status |-> "ok", value |-> "None"]
    ELSE IF raw = "unparsable" THEN [status |-> "ValueError", value |-> "unread"]
    ELSE [status |-> "ok", value |-> raw]

\* .astype(np.int16)
CastI16(value) == ((value + 32768) % 65536) - 32768

\* lines 123-125: nib.Nifti1Image(dataobj=....astype(np.int16), affine=affine).
\* nibabel takes None and any 4x4 matrix and refuses another shape; writing the
\* quaternion of a matrix with a zero column fails in the SVD, other singular
\* matrices pass.
Nifti1Image_outcomes(dataobj, aff) ==
    LET image == [dataobj |-> [shape |-> dataobj.shape,
                               data |-> [v \in DOMAIN dataobj.data |->
                                           CastI16(dataobj.data[v])]],
                  affine |-> aff, reoriented |-> FALSE]
    IN IF aff = "shape" THEN {[status |-> "ValueError", img |-> NoImage]}
       ELSE {[status |-> "ok", img |-> image]}
            \cup (IF aff = "singular"
                  THEN {[status |-> "LinAlgError", img |-> NoImage]} ELSE {})

\* the volume with its first two axes reversed
FlipXY(vol) ==
    [shape |-> vol.shape,
     data |-> [v \in DOMAIN vol.data |->
                 vol.data[<<vol.shape[1] - 1 - v[1], vol.shape[2] - 1 - v[2], v[3]>>]]]

\* lines 128-131: io_orientation of both affines, ornt_transform, as_reoriented.
\* io_orientation fails on None and on an array that is not 4x4; for a singular
\* matrix it leaves an axis without orientation and ornt_transform fails; RAS and
\* LPS differ in the direction of the first two axes.
as_reoriented(image, aff, orig) ==
    IF aff = "None" THEN [status |-> "IndexError", img |-> image]
    ELSE IF aff \notin {"RAS", "LPS"} \/ orig \notin {"RAS", "LPS"}
    THEN [status |-> "ValueError", img |-> image]
    ELSE [status |-> "ok",
          img |-> [dataobj |-> IF aff = orig THEN image.dataobj
                               ELSE FlipXY(image.dataobj),
                   affine |-> orig, reoriented |-> TRUE]]

\* annotation n is the first one with its id: it inserts the key into global_mapping
FirstWithId(anns, n) == \A m \in 1..(n - 1) : anns[m].id # anns[n].id

\* len(global_mapping): the number of distinct ids
ItemsLen(anns) == Cardinality({n \in 1..Len(anns) : FirstWithId(anns, n)})

\* the key of entry k (1-based) of global_mapping.items(): a dict keeps its keys in
\* the order of their first insertion
ItemAt(anns, k) ==
    anns[CHOOSE n \in 1..Len(anns) :
            /\ FirstWithId(anns, n)
            /\ Cardinality({m \in 1..n : FirstWithId(anns, m)}) = k].id

\* fillers of the item with more annotations than np.uint8 has values: with them
\* "a" is annotation 255 and "b" annotation 256
WideFillers == 254

\* that item: the fillers, "a" and "b", and the raster layer last
WideList ==
    [j \in 1..WideFillers |-> [id |-> "w" \o ToString(j), name |-> "kidney"]]
    \o <<[id |-> "a", name |-> "liver"], [id |-> "b", name |-> "spleen"],
         [id |-> "r", name |-> RasterLayer]>>

InitVolume ==
    /\ pc = "metadata"
    /\ \/ /\ annotations \in VolumeLists
          /\ frame_count \in {0, 1}
          /\ affine \in [raw : AffineKinds, value : {"unread"}]
          /\ original_affine \in [raw : AffineKinds, value : {"unread"}]
       \/ /\ annotations = WideList
          /\ frame_count = 1
          /\ affine = [raw |-> "absent", value |-> "unread"]
          /\ original_affine = [raw |-> "absent", value |-> "unread"]
    /\ global_mapping = EmptyDict /\ global_mapping_names = <<>>
    /\ ci = 0 /\ ai = 0 /\ frame_number = 0
    /\ masks = <<>> /\ mask_3d = NoVolume /\ error = "" /\ visited = <<>>
    /\ img = NoImage /\ nifti_file = NoImage /\ label_file = NoFile /\ li = 0
    /\ RleIdle /\ IoUIdle /\ ExtIdle

\* line 88: process_metadata(slot["metadata"]), affine first (lines 48-49)
ProcessMetadata ==
    /\ pc = "metadata"
    /\ LET a == process_affine(affine.raw)
           o == process_affine(original_affine.raw)
       IN IF a.status # "ok"
          THEN /\ error' = a.status /\ pc' = "raised"
               /\ UNCHANGED <<affine, original_affine>>
          ELSE IF o.status # "ok"
          THEN /\ error' = o.status /\ pc' = "raised"
               /\ affine' = [affine EXCEPT !.value = a.value]
               /\ UNCHANGED original_affine
          ELSE /\ affine' = [affine EXCEPT !.value = a.value]
               /\ original_affine' = [original_affine EXCEPT !.value = o.value]
               /\ pc' = "collect"
               /\ UNCHANGED error
    /\ UNCHANGED <<annotations, frame_count, global_mapping, global_mapping_names, ci, ai,
                   frame_number, masks, mask_3d, visited, img, nifti_file, label_file, li,
                   rleVars, iouVars, extVars>>

\* lines 123-125: img = nib.Nifti1Image(...)
BuildImage ==
    /\ pc = "stacked"
    /\ \E r \in Nifti1Image_outcomes(mask_3d, affine.value) :
          IF r.status = "ok"
          THEN img' = r.img /\ pc' = "image" /\ UNCHANGED error
          ELSE error' = r.status /\ pc' = "raised" /\ UNCHANGED img
    /\ UNCHANGED <<annotations, frame_count, global_mapping, global_mapping_names, ci, ai,
                   frame_number, masks, mask_3d, visited, affine, original_affine,
                   nifti_file, label_file, li, rleVars, iouVars, extVars>>

\* lines 127-131: the image is reoriented when original_affine is not None
Reorient ==
    /\ pc = "image"
    /\ IF original_affine.value = "None"
       THEN pc' = "oriented" /\ UNCHANGED <<img, error>>
       ELSE LET r == as_reoriented(img, affine.value, original_affine.value)
            IN IF r.status = "ok"
               THEN img' = r.img /\ pc' = "oriented" /\ UNCHANGED error
               ELSE error' = r.status /\ pc' = "raised" /\ UNCHANGED img
    /\ UNCHANGED <<annotations, frame_count, global_mapping, global_mapping_names, ci, ai,
                   frame_number, masks, mask_3d, visited, affine, original_affine,
                   nifti_file, label_file, li, rleVars, iouVars, extVars>>

\* lines 133-146: nib.save, then the label file is opened for writing
Save ==
    /\ pc = "oriented"
    /\ nifti_file' = img
    /\ label_file' = [opened |-> TRUE, lines |-> <<>>]
    /\ li' = 0
    /\ pc' = "legend"
    /\ UNCHANGED <<annotations, frame_count, global_mapping, global_mapping_names, ci, ai,
                   frame_number, masks, mask_3d, error, visited, affine, original_affine,
                   img, rleVars, iouVars, extVars>>

\* lines 147-151: one entry of global_mapping.items(); colormap.colors[i] raises
\* IndexError when i is no index of the palette
WriteLabel ==
    /\ pc = "legend" /\ li < ItemsLen(annotations)
    /\ LET i == global_mapping[ItemAt(annotations, li + 1)]
       IN IF i >= Len(Set1)
          THEN /\ error' = "IndexError" /\ pc' = "raised"
               /\ UNCHANGED <<label_file, li>>
          ELSE /\ label_file' = [label_file EXCEPT !.lines =
                                    Append(@, [index |-> i, color |-> Set1[i + 1],
                                               name |-> global_mapping_names[i]])]
               /\ li' = li + 1
               /\ UNCHANGED <<pc, error>>
    /\ UNCHANGED <<annotations, frame_count, global_mapping, global_mapping_names, ci, ai,
                   frame_number, masks, mask_3d, visited, affine, original_affine,
                   img, nifti_file, rleVars, iouVars, extVars>>

\* line 151: global_mapping.items() is exhausted, the function returns
EndLabels ==
    /\ pc = "legend" /\ li = ItemsLen(annotations)
    /\ pc' = "written"
    /\ UNCHANGED <<annotations, frame_count, global_mapping, global_mapping_names, ci, ai,
                   frame_number, masks, mask_3d, error, visited, tailVars,
                   rleVars, iouVars, extVars>>

NextVolume ==
    \/ ProcessMetadata \/ Next
    \/ BuildImage \/ Reorient \/ Save \/ WriteLabel \/ EndLabels

SpecVolume == InitVolume /\ [][NextVolume]_vars

----------------------------------------------------------------------------
(* SpecRLE: the codec on a mask (encode, then decode) or on a dense_rle list *)

InitRLE ==
    /\ ItemIdle /\ IoUIdle /\ ExtIdle
    /\ decoded = NoOutcome /\ decoded_inline = NoOutcome
    /\ \/ /\ rpc = "mask"
          /\ m_in \in Arrays(Shapes, CellValues)
          /\ rle_data = <<>>
          /\ shape = m_in.shape
          /\ total_pixels = m_in.shape[1] * m_in.shape[2]
       \/ /\ rpc = "rle"
          /\ m_in = NoArray
          /\ rle_data \in Streams(CellValues, MaxRuns, MaxCount)
          /\ shape \in Shapes
          /\ total_pixels \in {shape[1] * shape[2], shape[1] * shape[2] + 1}

\* encode(mask) of the design
Encode ==
    /\ rpc = "mask"
    /\ rle_data' = encode(m_in)
    /\ rpc' = "rle"
    /\ UNCHANGED <<m_in, shape, decoded, total_pixels, decoded_inline, itemVars, iouVars, extVars>>

\* decode_rle(rle_data, width, height) of converting_json_to_nifti_itk_snap.py
Decode ==
    /\ rpc = "rle"
    /\ decoded' \in decode_rle_outcomes(rle_data, shape[2], shape[1])
    /\ rpc' = "decoded"
    /\ UNCHANGED <<m_in, rle_data, shape, total_pixels, decoded_inline, itemVars, iouVars, extVars>>

\* the inline decoder of mask_class_conversion.py on the same list
DecodeInline ==
    /\ rpc = "decoded"
    /\ decoded_inline' \in inline_decode_outcomes(rle_data, shape[2], shape[1], total_pixels)
    /\ rpc' = "done"
    /\ UNCHANGED <<m_in, rle_data, shape, decoded, total_pixels, itemVars, iouVars, extVars>>

NextRLE == Encode \/ Decode \/ DecodeInline

SpecRLE == InitRLE /\ [][NextRLE]_vars

----------------------------------------------------------------------------
(* SpecIoU: main of iou_calculator.py on two masks *)

InitIoU ==
    /\ ItemIdle /\ RleIdle /\ ExtIdle
    /\ ipc = "start"
    /\ mask_1 \in Arrays(IoUShapes, IoUValues)
    /\ mask_2 \in Arrays(IoUShapes, IoUValues)
    /\ Intersection = 0 /\ Overlap = 0 /\ IOU_value = <<0, 0>> /\ ierror = ""

\* line 66: Intersection = iou.Array_AND(mask_1, mask_2)[1]
MainAnd ==
    /\ ipc = "start"
    /\ LET r == Array_AND(mask_1, mask_2)
       IN IF r.status = "ok"
          THEN Intersection' = r.count /\ ipc' = "and" /\ UNCHANGED ierror
          ELSE ierror' = r.status /\ ipc' = "raised" /\ UNCHANGED Intersection
    /\ UNCHANGED <<mask_1, mask_2, Overlap, IOU_value, itemVars, rleVars, extVars>>

\* line 67: Overlap = iou.Array_OR(mask_1, mask_2)[1]
MainOr ==
    /\ ipc = "and"
    /\ LET r == Array_OR(mask_1, mask_2)
       IN IF r.status = "ok"
          THEN Overlap' = r.count /\ ipc' = "or" /\ UNCHANGED ierror
          ELSE ierror' = r.status /\ ipc' = "raised" /\ UNCHANGED Overlap
    /\ UNCHANGED <<mask_1, mask_2, Intersection, IOU_value, itemVars, rleVars, extVars>>

\* lines 69-71: IOU_value = Intersection / Overlap, the quotient of two Python ints
MainDivide ==
    /\ ipc = "or"
    /\ IF Overlap = 0
       THEN ierror' = "ZeroDivisionError" /\ ipc' = "raised" /\ UNCHANGED IOU_value
       ELSE IOU_value' = <<Intersection, Overlap>> /\ ipc' = "returned" /\ UNCHANGED ierror
    /\ UNCHANGED <<mask_1, mask_2, Intersection, Overlap, itemVars, rleVars, extVars>>

NextIoU == MainAnd \/ MainOr \/ MainDivide

SpecIoU == InitIoU /\ [][NextIoU]_vars

----------------------------------------------------------------------------
(* SpecRaster: gen_mask of convert_darwin_json_to_mask.py and iou_calculator.py. *)
(* The two functions are the same four lines. Coordinates are floats in the      *)
(* annotation files; they are kept here in halves (the integer 3 is 1.5), which  *)
(* is enough to tell round() from the identity.                                  *)

\* most points of a polygon handed to gen_mask
MaxPoints == 3

\* height and width handed to gen_mask
Grid == [width |-> 3, height |-> 2]

\* x and y of the polygon points, in halves: -0.5, 1, 1.5, 2.5 and 0, 1
PolyXs == {-1, 2, 3, 5}
PolyYs == {0, 2}

Polygons == UNION {[1..n -> [x : PolyXs, y : PolyYs]] : n \in 0..MaxPoints}

\* Python's round() on a non-negative number of halves: ties go to the even integer
round(h) ==
    IF h % 2 = 0 THEN h \div 2
    ELSE LET f == (h - 1) \div 2 IN IF f % 2 = 0 THEN f ELSE f + 1

\* max(a, 0) of darwin.utils.convert_polygons_to_sequences, width and height not given
ClipLow(h) == IF h < 0 THEN 0 ELSE h

RECURSIVE PathOf(_)
PathOf(points) ==
    IF points = <<>> THEN <<>>
    ELSE <<round(ClipLow(Head(points).x)), round(ClipLow(Head(points).y))>>
         \o PathOf(Tail(points))

\* darwin.utils.convert_polygons_to_sequences(polygon) on one polygon given as a
\* list of {"x", "y"} points: ValueError on the empty list, else the list that
\* holds the one path [x0, y0, x1, y1, ...] of the rounded, clipped points
convert_polygons_to_sequences(polygons) ==
    IF polygons = <<>> THEN [status |-> "ValueError", sequences |-> <<>>]
    ELSE [status |-> "ok", sequences |-> <<PathOf(polygons)>>]

\* np.zeros((height, width))
zeros2d(height, width) == Reshape(Zeros(height * width), height, width)

\* the <<row, column>> cells of the mask inside the bounding box of a path
BoxCells(mask, path) ==
    LET xs == {path[k] : k \in {j \in 1..Len(path) : j % 2 = 1}}
        ys == {path[k] : k \in {j \in 1..Len(path) : j % 2 = 0}}
    IN {c \in (0..(mask.shape[1] - 1)) \X (0..(mask.shape[2] - 1)) :
           /\ \E y1 \in ys, y2 \in ys : y1 <= c[1] /\ c[1] <= y2
           /\ \E x1 \in xs, x2 \in xs : x1 <= c[2] /\ c[2] <= x2}

\* the mask with the cells of a set given the value
Painted(mask, cells, value) ==
    [shape |-> mask.shape,
     data |-> [p \in 1..Len(mask.data) |->
                 IF <<(p - 1) \div mask.shape[2], (p - 1) % mask.shape[2]>> \in cells
                 THEN value ELSE mask.data[p]]]

\* upolygon.draw_polygon(mask, seqs, value), seqs holding one path. The fill rule is the
\* library's and is not in this repository: the call is a black box that draws in
\* place and gives back the mask with some of the cells of the path's bounding
\* box set to value.
draw_polygon_outcomes(mask, seqs, value) ==
    {Painted(mask, cells, value) : cells \in SUBSET BoxCells(mask, seqs[1])}

InitRaster ==
    /\ ItemIdle /\ RleIdle /\ IoUIdle /\ TraceIdle /\ BatchIdle /\ FillIdle /\ TrimIdle
    /\ gpc = "start"
    /\ polygon \in Polygons
    /\ sequences = <<>> /\ gmask = NoArray /\ gerror = ""

\* gen_mask, the first two statements: mask = np.zeros((height, width));
\* sequences = convert_polygons_to_sequences(polygon)
GenMaskConvert ==
    /\ gpc = "start"
    /\ LET r == convert_polygons_to_sequences(polygon)
       IN IF r.status = "ok"
          THEN /\ sequences' = r.sequences
               /\ gmask' = zeros2d(Grid.height, Grid.width)
               /\ gpc' = "converted"
               /\ UNCHANGED gerror
          ELSE /\ gerror' = r.status
               /\ gpc' = "raised"
               /\ UNCHANGED <<sequences, gmask>>
    /\ UNCHANGED <<polygon, itemVars, rleVars, iouVars, traceVars, batchVars, fillVars, trimVars>>

\* gen_mask, the last two statements: up.draw_polygon(mask, sequences, 1); return mask
GenMaskDraw ==
    /\ gpc = "converted"
    /\ gmask' \in draw_polygon_outcomes(gmask, sequences, 1)
    /\ gpc' = "returned"
    /\ UNCHANGED <<polygon, sequences, gerror, itemVars, rleVars, iouVars, traceVars, batchVars, fillVars, trimVars>>

NextRaster == GenMaskConvert \/ GenMaskDraw

SpecRaster == InitRaster /\ [][NextRaster]_vars

----------------------------------------------------------------------------
(* SpecTrace: convert_png_to_darwin_json of png_to_complex_darwin_json.py.     *)
(* A path is the flat list [x0, y0, x1, y1, ...] upolygon.find_contours gives. *)

\* most points of one path find_contours gives back
MaxPathPoints == 3

\* <<height, width>> of the PNG
TraceShapes == {<<1, 2>>, <<2, 1>>}
\* grey values of the PNG after convert("L")
GreyValues == {0, 255}

\* line 65: mask[mask > 0] = 1, every cell set to 1
binarize_all(image) ==
    [shape |-> image.shape, data |-> [p \in 1..Len(image.data) |-> 1]]

\* line 65: mask[mask > 0] = 1
binarize(image) ==
    [shape |-> image.shape,
     data |-> [p \in 1..Len(image.data) |-> IF image.data[p] > 0 THEN 1 ELSE image.data[p]]]

\* the <<x, y>> (column, row) of the foreground cells of a mask
Foreground(mask) ==
    {c \in (0..(mask.shape[2] - 1)) \X (0..(mask.shape[1] - 1)) :
        mask.data[c[2] * mask.shape[2] + c[1] + 1] # 0}

\* the flat list of a sequence of <<x, y>> points
FlatPoints(ps) ==
    [i \in 1..(2 * Len(ps)) |-> IF i % 2 = 1 THEN ps[(i + 1) \div 2][1] ELSE ps[i \div 2][2]]

\* the flat paths of at most n points, all of them points of a set
FlatPaths(points, n) == UNION {{FlatPoints(ps) : ps \in [1..k -> points]} : k \in 0..n}

\* upolygon.find_contours(mask): the tracing algorithm is the library's and is not
\* in this repository. The call is a black box that gives back up to two external
\* and up to one internal path, every point of which is a foreground cell of mask.
find_contours_outcomes(mask) ==
    LET P == FlatPaths(Foreground(mask), MaxPathPoints)
    IN {[external |-> e, internal |-> i] :
           e \in {<<>>} \cup {<<a>> : a \in P} \cup {<<a, b>> : a \in P, b \in P},
           i \in {<<>>} \cup {<<a>> : a \in P}}

\* lines 73-74, 87-88 with the test `<= 1`
skip_path_short(path) == Len(path) \div 2 <= 1

\* lines 73-74, 87-88: if len(path) // 2 <= 2: continue
skip_path(path) == Len(path) \div 2 <= 2

\* lines 75-81, 89-95: x, y = next(points), next(points) until StopIteration; a
\* coordinate left without its partner is dropped with the exception
new_path_of(path) ==
    [k \in 1..(Len(path) \div 2) |-> [x |-> path[2 * k - 1], y |-> path[2 * k]]]

InitTrace ==
    /\ ItemIdle /\ RleIdle /\ IoUIdle /\ RasterIdle /\ BatchIdle /\ FillIdle /\ TrimIdle
    /\ tpc = "start"
    /\ masked_image \in Arrays(TraceShapes, GreyValues)
    /\ tmask = NoArray /\ external = <<>> /\ internal = <<>> /\ tk = 0 /\ paths = <<>>

\* lines 62-65: the image is loaded and binarised
Binarize ==
    /\ tpc = "start"
    /\ tmask' = binarize(masked_image)
    /\ tpc' = "mask"
    /\ UNCHANGED <<masked_image, external, internal, tk, paths,
                   itemVars, rleVars, iouVars, rasterVars, batchVars, fillVars, trimVars>>

\* lines 67-69: _labels, external, _internal = find_contours(mask); paths = []
FindContours ==
    /\ tpc = "mask"
    /\ \E r \in find_contours_outcomes(tmask) :
          external' = r.external /\ internal' = r.internal
    /\ tk' = 0
    /\ tpc' = "external"
    /\ UNCHANGED <<masked_image, tmask, paths, itemVars, rleVars, iouVars, rasterVars, batchVars, fillVars, trimVars>>

\* lines 70-82: one external path
ExternalPath ==
    /\ tpc = "external" /\ tk < Len(external)
    /\ paths' = IF skip_path(external[tk + 1]) THEN paths
                ELSE Append(paths, new_path_of(external[tk + 1]))
    /\ tk' = tk + 1
    /\ UNCHANGED <<tpc, masked_image, tmask, external, internal,
                   itemVars, rleVars, iouVars, rasterVars, batchVars, fillVars, trimVars>>

\* line 84: the loop over the external paths is over, the internal ones follow
EndExternal ==
    /\ tpc = "external" /\ tk = Len(external)
    /\ tk' = 0
    /\ tpc' = "internal"
    /\ UNCHANGED <<masked_image, tmask, external, internal, paths,
                   itemVars, rleVars, iouVars, rasterVars, batchVars, fillVars, trimVars>>

\* lines 84-96: one internal path
InternalPath ==
    /\ tpc = "internal" /\ tk < Len(internal)
    /\ paths' = IF skip_path(internal[tk + 1]) THEN paths
                ELSE Append(paths, new_path_of(internal[tk + 1]))
    /\ tk' = tk + 1
    /\ UNCHANGED <<tpc, masked_image, tmask, external, internal,
                   itemVars, rleVars, iouVars, rasterVars, batchVars, fillVars, trimVars>>

\* line 98: return paths
ReturnPaths ==
    /\ tpc = "internal" /\ tk = Len(internal)
    /\ tpc' = "returned"
    /\ UNCHANGED <<masked_image, tmask, external, internal, tk, paths,
                   itemVars, rleVars, iouVars, rasterVars, batchVars, fillVars, trimVars>>

NextTrace ==
    \/ Binarize \/ FindContours \/ ExternalPath \/ EndExternal
    \/ InternalPath \/ ReturnPaths

SpecTrace == InitTrace /\ [][NextTrace]_vars

----------------------------------------------------------------------------
(* SpecBatch: convert of itk_snap_convert_json_to_nifti.py on a directory. A   *)
(* file is kept by the kind of its item, and process_and_flip_image by the way *)
(* it ends on that kind in SpecVolume.                                         *)

\* most *.json files in input_dir
MaxItems == 3

\* "ok": an item whose volume is written; "no_masks": an item without any mask;
\* "invalid_affine": an item whose affine cannot be evaluated
ItemKinds == {"ok", "no_masks", "invalid_affine"}

Batches == UNION {[1..n -> ItemKinds] : n \in 0..MaxItems}

\* how process_and_flip_image ends on an item: "written" after line 151,
\* "no_masks" with the return None of line 119, "raised" with the exception of
\* process_affine (line 70, called from line 88)
process_and_flip_image_end(kind) ==
    IF kind = "invalid_affine" THEN [pc |-> "raised", error |-> "ValueError"]
    ELSE IF kind = "no_masks" THEN [pc |-> "no_masks", error |-> ""]
    ELSE [pc |-> "written", error |-> ""]

InitBatch ==
    /\ ItemIdle /\ RleIdle /\ IoUIdle /\ RasterIdle /\ TraceIdle /\ FillIdle /\ TrimIdle
    /\ bpc = "loop"
    /\ batch \in Batches
    /\ bk = 0 /\ converted = {} /\ berror = ""

\* lines 157-162: one file; nothing catches what process_and_flip_image raises
ConvertFile ==
    /\ bpc = "loop" /\ bk < Len(batch)
    /\ LET r == process_and_flip_image_end(batch[bk + 1])
       IN IF r.pc = "raised"
          THEN /\ berror' = r.error /\ bpc' = "raised"
               /\ UNCHANGED <<bk, converted>>
          ELSE /\ converted' = IF r.pc = "written" THEN converted \cup {bk + 1}
                               ELSE converted
               /\ bk' = bk + 1
               /\ UNCHANGED <<bpc, berror>>
    /\ UNCHANGED <<batch, itemVars, rleVars, iouVars, rasterVars, traceVars, fillVars, trimVars>>

\* line 157: the files are exhausted, convert returns
ConvertReturn ==
    /\ bpc = "loop" /\ bk = Len(batch)
    /\ bpc' = "returned"
    /\ UNCHANGED <<batch, bk, converted, berror, itemVars, rleVars, iouVars,
                   rasterVars, traceVars, fillVars, trimVars>>

NextBatch == ConvertFile \/ ConvertReturn

SpecBatch == InitBatch /\ [][NextBatch]_vars

----------------------------------------------------------------------------
(* SpecFill: fill_instance_ids of fill_instance_ids_video.py on one annotation *)
(* file. A frame is kept by its instance id: n > 0 for                         *)
(* "instance_id": {"value": n}, 0 when the frame has no "instance_id" key.     *)

\* most annotations of a file
MaxFillAnn == 2
\* most frames of an annotation
MaxFillFrames == 2

\* the instance ids annotations of the export carry
InstanceIds == {1, 2}

\* the frames of one annotation: every frame that has an id has the id of the
\* annotation
FrameIdLists == UNION {[1..n -> {0, v}] : n \in 0..MaxFillFrames, v \in InstanceIds}

FillFiles == UNION {[1..n -> FrameIdLists] : n \in 0..MaxFillAnn}

\* lines 115-121: the frames are read in dict order; the first frame that has
\* "instance_id" ends the loop (break), a frame without it is noted (KeyError)
RECURSIVE scan_frames(_, _, _)
scan_frames(frames, k, missing) ==
    IF k > Len(frames) THEN [instance_id |-> 0, missing |-> missing]
    ELSE IF frames[k] # 0 THEN [instance_id |-> frames[k], missing |-> missing]
    ELSE scan_frames(frames, k + 1, Append(missing, k))

\* lines 130-133, 136-139: the noted frames are given the id
RECURSIVE set_instance_id(_, _, _)
set_instance_id(frames, missing, id) ==
    IF missing = <<>> THEN frames
    ELSE set_instance_id([frames EXCEPT ![Head(missing)] = id], Tail(missing), id)

InitFill ==
    /\ ItemIdle /\ RleIdle /\ IoUIdle /\ RasterIdle /\ TraceIdle /\ BatchIdle /\ TrimIdle
    /\ fpc = "scan"
    /\ fdata \in FillFiles
    /\ fa = 0 /\ instance_id = 0 /\ frames_missing_instance_id = <<>>
    /\ missing_id_count = 0
    /\ api_next = 3
    /\ adjusted = <<>>

\* lines 112-121: the next annotation, its frames scanned for an instance id
FindInstanceId ==
    /\ fpc = "scan" /\ fa < Len(fdata)
    /\ LET r == scan_frames(fdata[fa + 1], 1, <<>>)
       IN /\ instance_id' = r.instance_id
          /\ frames_missing_instance_id' = r.missing
    /\ fa' = fa + 1
    /\ fpc' = "fill"
    /\ UNCHANGED <<fdata, missing_id_count, api_next, adjusted,
                   itemVars, rleVars, iouVars, rasterVars, traceVars, batchVars, trimVars>>

\* lines 123-134: no id was found: the API gives the next unique id, which is
\* set on the noted frames
FillWithNewId ==
    /\ fpc = "fill" /\ instance_id = 0
    /\ instance_id' = api_next
    /\ api_next' = api_next + 1
    /\ fdata' = [fdata EXCEPT ![fa] = set_instance_id(@, frames_missing_instance_id, api_next)]
    /\ missing_id_count' = missing_id_count + Len(frames_missing_instance_id)
    /\ fpc' = "scan"
    /\ UNCHANGED <<fa, frames_missing_instance_id, adjusted,
                   itemVars, rleVars, iouVars, rasterVars, traceVars, batchVars, trimVars>>

\* lines 135-140: the id that was found is set on the noted frames
FillWithFoundId ==
    /\ fpc = "fill" /\ instance_id # 0
    /\ fdata' = [fdata EXCEPT ![fa] = set_instance_id(@, frames_missing_instance_id,
                                                      instance_id)]
    /\ missing_id_count' = missing_id_count + Len(frames_missing_instance_id)
    /\ fpc' = "scan"
    /\ UNCHANGED <<fa, instance_id, frames_missing_instance_id, api_next, adjusted,
                   itemVars, rleVars, iouVars, rasterVars, traceVars, batchVars, trimVars>>

\* lines 142-145: the adjusted annotations are dumped
DumpAdjusted ==
    /\ fpc = "scan" /\ fa = Len(fdata)
    /\ adjusted' = fdata
    /\ fpc' = "written"
    /\ UNCHANGED <<fdata, fa, instance_id, frames_missing_instance_id, missing_id_count,
                   api_next, itemVars, rleVars, iouVars, rasterVars, traceVars, batchVars, trimVars>>

NextFill == FindInstanceId \/ FillWithNewId \/ FillWithFoundId \/ DumpAdjusted

SpecFill == InitFill /\ [][NextFill]_vars

----------------------------------------------------------------------------
(* SpecTrim: Trimmer.trim of trim_annotations_to_border_video.py on one export. *)
(* An annotation is the sequence of its frames in the order of the frames dict; *)
(* a frame is [bounding_box, polygon], each with a flag for the key being there. *)

\* image[0].get("width"), image[0].get("height")
Image == [width |-> 4, height |-> 4]

NoBox == [present |-> FALSE, x |-> 0, y |-> 0, w |-> 0, h |-> 0]
NoPolygon == [present |-> FALSE, path |-> <<>>]

\* bounding boxes left of, across, inside, and right of the image, and likewise
\* for the rows
BBoxes == [present : {TRUE}, x : {-3, 1, 5}, y : {-3, 1}, w : {2, 5}, h : {2, 5}]

\* polygon["paths"][0] of the frames that have a polygon
PolygonPath == <<[x |-> -1, y |-> 1], [x |-> 5, y |-> 6], [x |-> 2, y |-> -2]>>

\* the first frame of an annotation
FirstFrames ==
    [bounding_box : BBoxes \cup {NoBox}, polygon : {NoPolygon}]
    \cup [bounding_box : {b \in BBoxes \cup {NoBox} : b.w = b.h /\ b.y = 1},
          polygon : {[present |-> TRUE, path |-> PolygonPath]}]

\* the later frames of an annotation
LaterFrames ==
    [bounding_box : {b \in BBoxes : b.w = 2 /\ b.h = 2 /\ b.y = 1} \cup {NoBox},
     polygon : {NoPolygon}]

\* annotation["frames"] of a video annotation: one or two frames
TrimAnnotations == {<<f>> : f \in FirstFrames} \cup (FirstFrames \X LaterFrames)

\* export["annotations"]: up to two annotations
TrimExports ==
    {<<>>} \cup {<<a>> : a \in TrimAnnotations}
    \cup {<<a, b>> : a \in {<<f>> : f \in FirstFrames}, b \in FirstFrames \X LaterFrames}

\* lines 111-116: the "bounding_box" of the first frame, tested for truth
is_bounding_box(annotation) == annotation[1].bounding_box.present

\* lines 118-120
is_polygon(annotation) == annotation[1].polygon.present

\* lines 65-86
is_completely_outside_image(annotation, max_width, max_height) ==
    IF is_bounding_box(annotation)
    THEN LET bbox == annotation[1].bounding_box
             left_x == bbox.x
             right_x == left_x + bbox.w
             top_y == bbox.y
             bottom_y == top_y + bbox.h
         IN \/ (left_x < 0 /\ right_x < 0)
            \/ (left_x > max_width /\ right_x > max_width)
            \/ (top_y < 0 /\ bottom_y < 0)
            \/ (top_y > max_height /\ bottom_y > max_height)
    ELSE FALSE

\* lines 130-140, 163-173: a coordinate is moved into [0, max]
Clamp(c, max) == IF c < 0 THEN 0 ELSE IF c > max THEN max ELSE c

\* lines 122-152
trim_bounding_box(bbox, max_width, max_height) ==
    LET left_x == Clamp(bbox.x, max_width)
        top_y == Clamp(bbox.y, max_height)
        right_x == left_x + bbox.w
        bottom_y == top_y + bbox.h
    IN [present |-> TRUE,
        x |-> left_x,
        y |-> top_y,
        w |-> IF right_x > max_width THEN bbox.w - (right_x - max_width) ELSE bbox.w,
        h |-> IF bottom_y > max_height THEN bbox.h - (bottom_y - max_height) ELSE bbox.h]

\* lines 154-181
trim_polygon(poly, max_width, max_height) ==
    [present |-> TRUE,
     path |-> [i \in 1..Len(poly.path) |->
                 [x |-> Clamp(poly.path[i].x, max_width),
                  y |-> Clamp(poly.path[i].y, max_height)]]]

\* lines 88-109: only the first frame of the annotation is written to
trim_to_max_values(annotation, max_width, max_height) ==
    IF is_bounding_box(annotation)
    THEN [annotation EXCEPT
            ![1] = [bounding_box |-> trim_bounding_box(@.bounding_box, max_width, max_height),
                    polygon |-> IF is_polygon(annotation)
                                THEN trim_polygon(@.polygon, max_width, max_height)
                                ELSE @.polygon]]
    ELSE annotation

InitTrim ==
    /\ ItemIdle /\ RleIdle /\ IoUIdle /\ RasterIdle /\ TraceIdle /\ BatchIdle /\ FillIdle
    /\ xpc = "filter"
    /\ export_annotations \in TrimExports
    /\ annotations_inside_image = <<>> /\ new_annotations = <<>>
    /\ xk = 0 /\ trimmed_file = <<>>

\* lines 42-46: one annotation of the first loop
KeepInside ==
    /\ xpc = "filter" /\ xk < Len(export_annotations)
    /\ annotations_inside_image' =
          IF is_completely_outside_image(export_annotations[xk + 1], Image.width, Image.height)
          THEN annotations_inside_image
          ELSE Append(annotations_inside_image, export_annotations[xk + 1])
    /\ xk' = xk + 1
    /\ UNCHANGED <<xpc, export_annotations, new_annotations, trimmed_file,
                   itemVars, rleVars, iouVars, rasterVars, traceVars, batchVars, fillVars>>

\* line 48: the first loop is over
EndKeepInside ==
    /\ xpc = "filter" /\ xk = Len(export_annotations)
    /\ xk' = 0
    /\ xpc' = "trim"
    /\ UNCHANGED <<export_annotations, annotations_inside_image, new_annotations,
                   trimmed_file,
                   itemVars, rleVars, iouVars, rasterVars, traceVars, batchVars, fillVars>>

\* lines 49-52: one annotation of the second loop
TrimAnnotation ==
    /\ xpc = "trim" /\ xk < Len(annotations_inside_image)
    /\ new_annotations' =
          Append(new_annotations,
                 trim_to_max_values(annotations_inside_image[xk + 1], Image.width, Image.height))
    /\ xk' = xk + 1
    /\ UNCHANGED <<xpc, export_annotations, annotations_inside_image, trimmed_file,
                   itemVars, rleVars, iouVars, rasterVars, traceVars, batchVars, fillVars>>

\* lines 53-63: the export with the new annotations is written
WriteTrimmed ==
    /\ xpc = "trim" /\ xk = Len(annotations_inside_image)
    /\ trimmed_file' = new_annotations
    /\ xpc' = "written"
    /\ UNCHANGED <<export_annotations, annotations_inside_image, new_annotations, xk,
                   itemVars, rleVars, iouVars, rasterVars, traceVars, batchVars, fillVars>>

NextTrim == KeepInside \/ EndKeepInside \/ TrimAnnotation \/ WriteTrimmed

SpecTrim == InitTrim /\ [][NextTrim]_vars

----------------------------------------------------------------------------
(* Properties *)

\* the value of the run of a dense_rle list that covers the 0-based position p,
\* runs laid out consecutively from position 0; -1 when no run covers p
RECURSIVE RunValueFrom(_, _, _, _)
RunValueFrom(rle, i, start, p) ==
    IF i > Len(rle) THEN -1
    ELSE IF p >= start /\ p < start + rle[i + 1] THEN rle[i]
    ELSE RunValueFrom(rle, i + 2, start + rle[i + 1], p)

RunValueAt(rle, p) == RunValueFrom(rle, 1, 0, p)

\* cell (row, col), 0-based, of a 2D array
Cell(arr, row, col) == arr.data[row * arr.shape[2] + col + 1]

AllZero(arr) == \A p \in 1..Len(arr.data) : arr.data[p] = 0

Finished == pc \in {"stacked", "no_masks"}

\* C1 (fill-gap): when the run on an item with one raster layer annotation ends
\* without an exception, there are exactly frame_count masks, all of the slot's
\* height and width, and the mask at every frame index without a raster layer
\* is all-background.
C1_FillGap ==
    (Finished /\ RasterCount(annotations) = 1) =>
        /\ Len(masks) = frame_count
        /\ \A k \in 1..Len(masks) : masks[k].shape = <<Slot.height, Slot.width>>
        /\ \A k \in 1..Len(visited) :
              visited[k].kind # "raster_layer" =>
                  /\ visited[k].frame + 1 <= Len(masks)
                  /\ AllZero(masks[visited[k].frame + 1])

\* the frame read at visited[k] was remapped into masks[visited[k].out]
Remapped(k) == visited[k].kind = "raster_layer" /\ visited[k].out > 0

\* the cells (0-based offsets) of the frame read at visited[k] that its dense_rle
\* gives to object o: those covered by a run of o's positive local value
CellsOf(k, o) ==
    {p \in 0..(Slot.width * Slot.height - 1) :
        /\ o \in DOMAIN visited[k].mapping
        /\ visited[k].mapping[o] > 0
        /\ RunValueAt(visited[k].rle, p) = visited[k].mapping[o]}

\* C2 (identity stability): an object that two remapped frames hold under
\* different local mask values has one and the same value in every cell it
\* occupies in the two output masks.
C2_IdentityStable ==
    \A i, j \in 1..Len(visited) :
        (Remapped(i) /\ Remapped(j)) =>
            \A o \in (DOMAIN visited[i].mapping) \cap (DOMAIN visited[j].mapping) :
                visited[i].mapping[o] # visited[j].mapping[o] =>
                    \A p \in CellsOf(i, o), q \in CellsOf(j, o) :
                        masks[visited[i].out].data[p + 1] = masks[visited[j].out].data[q + 1]

\* C2 witness: an object occupies cells of two remapped frames under different
\* local values.
C2_Witness ==
    \E i, j \in 1..Len(visited) :
        /\ Remapped(i) /\ Remapped(j)
        /\ \E o \in (DOMAIN visited[i].mapping) \cap (DOMAIN visited[j].mapping) :
              /\ visited[i].mapping[o] # visited[j].mapping[o]
              /\ CellsOf(i, o) # {} /\ CellsOf(j, o) # {}
              /\ \E p \in CellsOf(i, o) : masks[visited[i].out].data[p + 1] > 0

RleDecoded == rpc \in {"decoded", "done"}

\* C3 (RLE length check): decode_rle of a list whose counts do not sum to
\* width * height fails instead of returning a mask.
C3_LengthCheck ==
    (RleDecoded /\ Sum2(rle_data) # shape[1] * shape[2]) => decoded.status # "ok"

\* C4 (round trip): the mask that decode(encode(m), width, height) returns is m.
C4_RoundTrip ==
    (RleDecoded /\ m_in # NoArray /\ decoded.status = "ok") => decoded.mask = m_in

\* C5 (decode result): for a list whose counts sum to width * height, the mask
\* decode_rle returns has height rows and width columns, and its cell
\* (p div width, p mod width) is the value of the run covering position p.
C5_DecodeLayout ==
    (RleDecoded /\ Sum2(rle_data) = shape[1] * shape[2] /\ decoded.status = "ok") =>
        /\ decoded.mask.shape = shape
        /\ \A p \in 0..(shape[1] * shape[2] - 1) :
              Cell(decoded.mask, p \div shape[2], p % shape[2]) = RunValueAt(rle_data, p)

\* the frame read at visited[k] refers to an object or a value the item does not
\* know: an annotation id outside the annotation list, or a run value that is
\* neither 0 nor a local value of the frame's mapping
RefersToUnknown(k) ==
    /\ visited[k].kind = "raster_layer"
    /\ \/ \E o \in DOMAIN visited[k].mapping :
             \A n \in 1..Len(annotations) : annotations[n].id # o
       \/ \E n \in 1..Len(visited[k].rle) :
             /\ n % 2 = 1
             /\ visited[k].rle[n] # 0
             /\ \A o \in DOMAIN visited[k].mapping : visited[k].mapping[o] # visited[k].rle[n]

\* C6 (unknown local value): a frame that refers to an unknown object or value
\* does not end the run; it is output as an all-background mask.
C6_UnknownRecovered ==
    \A k \in 1..Len(visited) :
        RefersToUnknown(k) =>
            /\ pc # "raised"
            /\ visited[k].out > 0
            /\ AllZero(masks[visited[k].out])

\* the distinct ids of an annotation list in first-appearance order
RECURSIVE FirstAppearance(_)
FirstAppearance(anns) ==
    IF anns = <<>> THEN <<>>
    ELSE LET init == FirstAppearance(SubSeq(anns, 1, Len(anns) - 1))
             last == anns[Len(anns)].id
         IN IF \E k \in 1..Len(init) : init[k] = last THEN init ELSE Append(init, last)

IdsOf(anns) == {anns[n].id : n \in 1..Len(anns)}

LastIndex(anns, id) ==
    CHOOSE n \in 1..Len(anns) :
        anns[n].id = id /\ \A m \in (n + 1)..Len(anns) : anns[m].id # id

Collected == pc # "collect" /\ pc # "idle"

C8_NoDivisionError ==
    (mask_1.shape = mask_2.shape /\ AllZero(mask_1) /\ AllZero(mask_2)) =>
        ierror # "ZeroDivisionError"

\* C9 (shape mismatch): once Array_AND has been applied to masks that differ in
\* width or height, the run has failed.
C9_ShapeMismatch ==
    (mask_1.shape # mask_2.shape /\ ipc \notin {"idle", "start"}) => ipc = "raised"

NonEmptyMask(arr) == \E p \in 1..Len(arr.data) : arr.data[p] # 0

\* C10 (iou(m, m) = 1): main on a mask with a non-zero cell and itself raises
\* nothing and returns a quotient of two equal positive counts.
C10_IoUSelf ==
    (mask_1 = mask_2 /\ NonEmptyMask(mask_1)) =>
        /\ ipc # "raised"
        /\ ipc = "returned" =>
              /\ IOU_value[1] = IOU_value[2]
              /\ IOU_value[2] > 0
              /\ Intersection = Overlap

\* C10 witness: main has returned for a mask with a zero cell, a cell of value 2,
\* and itself.
C10_Witness ==
    /\ ipc = "returned"
    /\ mask_1 = mask_2
    /\ \E p, q \in 1..Len(mask_1.data) : mask_1.data[p] = 2 /\ mask_1.data[q] = 0

----------------------------------------------------------------------------
(* gen_mask *)

\* C11 (degenerate polygon): gen_mask gives no mask back for a polygon with fewer
\* than 3 points; whenever it returns a mask the polygon had at least 3 points.
C11_DegenerateRejected == gpc = "returned" => Len(polygon) >= 3

----------------------------------------------------------------------------
(* convert_png_to_darwin_json *)

\* the paths find_contours gave, external first
Traced == external \o internal

\* the number of traced paths with at least 3 points
RECURSIVE CountKept(_)
CountKept(ps) ==
    IF ps = <<>> THEN 0
    ELSE (IF Len(Head(ps)) \div 2 >= 3 THEN 1 ELSE 0) + CountKept(Tail(ps))

C15_EmptyInput ==
    (AllZero(masked_image) /\ tpc \in {"external", "internal", "returned"}) => paths = <<>>

\* an all-background image for which the function returned
C15_Witness == AllZero(masked_image) /\ tpc = "returned" /\ Len(masked_image.data) > 0

----------------------------------------------------------------------------
(* process_and_flip_image: affines and label file *)

\* an affine that was supplied and is malformed or not invertible
AffineBad(a) == a.raw \in {"other", "unparsable", "singular", "shape"}

\* C17 (invalid affine): when original_affine is supplied and it or the affine is
\* malformed or not invertible, the run fails: no volume is saved and no label
\* file is written (the reorientation is never passed over in silence).
C17_InvalidAffine ==
    (original_affine.raw \notin {"absent", "unread"}
        /\ (AffineBad(affine) \/ AffineBad(original_affine)))
    => (nifti_file = NoImage /\ label_file = NoFile)

\* the identities that occur in a cell of a volume
Touched(vol) == {vol.data[v] : v \in DOMAIN vol.data} \ {0}

\* C18 (legend): when the run has ended with a volume saved, the label file holds
\* exactly one line for each identity that occurs in a cell of the volume, and
\* the line carries the identity's index, its palette colour and its name.
C18_Legend ==
    (nifti_file # NoImage /\ pc \in {"written", "raised"}) =>
        \A g \in Touched(nifti_file.dataobj) :
            /\ Cardinality({k \in 1..Len(label_file.lines) :
                               label_file.lines[k].index = g}) = 1
            /\ \A k \in 1..Len(label_file.lines) :
                  label_file.lines[k].index = g =>
                      /\ g < Len(Set1)
                      /\ label_file.lines[k].color = Set1[g + 1]
                      /\ label_file.lines[k].name = global_mapping_names[g]

----------------------------------------------------------------------------
(* convert *)

\* C16 (batch isolation): when convert has ended, the volume of every item that
\* has masks and a valid affine was written, whatever the other items of the
\* directory were: an item that fails as a whole takes no other item with it.
C16_BatchIsolation ==
    bpc \in {"returned", "raised"} =>
        \A k \in 1..Len(batch) : batch[k] = "ok" => k \in converted

----------------------------------------------------------------------------
(* fill_instance_ids *)

\* C19 (instance ids filled): in the file fill_instance_ids writes, every frame of
\* every annotation has an instance id, and the frames of one annotation all have
\* the same one.
C19_InstanceIdsFilled ==
    fpc = "written" =>
        \A a \in 1..Len(adjusted) :
            /\ \A k \in 1..Len(adjusted[a]) : adjusted[a][k] # 0
            /\ \A k, j \in 1..Len(adjusted[a]) : adjusted[a][k] = adjusted[a][j]

----------------------------------------------------------------------------
(* Trimmer.trim *)

\* a bounding box that lies within the image
WithinImage(bbox) ==
    /\ bbox.x >= 0 /\ bbox.y >= 0
    /\ bbox.x + bbox.w <= Image.width /\ bbox.y + bbox.h <= Image.height

\* C20 (bounding boxes within the image): in the file trim writes, the bounding
\* box of every frame of every annotation lies within the image.
C20_TrimmedWithinImage ==
    xpc = "written" =>
        \A a \in 1..Len(trimmed_file) : \A k \in 1..Len(trimmed_file[a]) :
            trimmed_file[a][k].bounding_box.present =>
                WithinImage(trimmed_file[a][k].bounding_box)

----------------------------------------------------------------------------
(* Array_AND / Array_OR *)

\* main has passed Array_AND on two masks of one shape
AndCounted == ipc \in {"and", "or", "returned"} /\ mask_1.shape = mask_2.shape

\* main has passed Array_OR on two masks of one shape
OrCounted == ipc \in {"or", "returned"} /\ mask_1.shape = mask_2.shape

\* C21 (intersection and union counts): for two masks of one shape the count
\* Array_AND gives is the number of cells where both masks are non-zero, and the
\* count Array_OR gives is the number of cells where at least one is non-zero,
\* whatever the non-zero values are.
C21_Counts ==
    /\ AndCounted =>
          Intersection = Cardinality({p \in 1..Len(mask_1.data) :
                                         mask_1.data[p] # 0 /\ mask_2.data[p] # 0})
    /\ OrCounted =>
          Overlap = Cardinality({p \in 1..Len(mask_1.data) :
                                    mask_1.data[p] # 0 \/ mask_2.data[p] # 0})

\* both counts were taken on two masks that hold label 1 against label 2 in one
\* cell and a non-zero cell against background in another
C21_Witness ==
    /\ OrCounted
    /\ \E p, q \in 1..Len(mask_1.data) :
          /\ mask_1.data[p] = 1 /\ mask_2.data[p] = 2
          /\ mask_1.data[q] = 2 /\ mask_2.data[q] = 0

----------------------------------------------------------------------------
(* process_and_flip_image: the order of Collect and the frame loop *)

\* every annotation of the item has its entry in the global identity table
TableBuilt ==
    /\ ci = Len(annotations)
    /\ \A n \in 1..Len(annotations) : annotations[n].id \in DOMAIN global_mapping

\* a step of the loop over the annotations and their frames leaves the table as it is
TableKept == pc \in {"annotations", "frames"} => global_mapping' = global_mapping

\* C22 (Collect before remap): the global identity table holds an entry for every
\* annotation before the loop over the annotations and their frames starts, and
\* no step of that loop adds, removes or changes an entry of the table.
C22_TableBeforeRemap ==
    /\ [](pc \in {"annotations", "frames", "stacked", "no_masks", "raised"} => TableBuilt)
    /\ [][TableKept]_vars

\* two frames of an item with three annotations were remapped
C22_Witness ==
    /\ Len(annotations) = 3
    /\ \E i, j \in 1..Len(visited) : i # j /\ Remapped(i) /\ Remapped(j)

----------------------------------------------------------------------------
(* process_and_flip_image: the frames are independent of each other *)

\* two frames that were remapped from the same dense_rle and the same local mapping
SameInput(i, j) ==
    /\ Remapped(i) /\ Remapped(j)
    /\ visited[i].rle = visited[j].rle
    /\ visited[i].mapping = visited[j].mapping

\* a step leaves every mask that is already in the list as it is and where it is
MasksKept ==
    /\ Len(masks') >= Len(masks)
    /\ \A k \in 1..Len(masks) : masks'[k] = masks[k]

----------------------------------------------------------------------------
(* process_and_flip_image: assembly of the volume *)

\* C24 (assembly): the volume stacked from the masks has shape
\* width x height x frame_count, and its voxel (x, y, z) is cell
\* (height - 1 - y, width - 1 - x) of the mask of frame frame_count - 1 - z.
C24_Assembly ==
    pc = "stacked" =>
        /\ mask_3d.shape = <<Slot.width, Slot.height, frame_count>>
        /\ \A x \in 0..(Slot.width - 1), y \in 0..(Slot.height - 1),
              z \in 0..(frame_count - 1) :
                mask_3d.data[<<x, y, z>>] =
                    Cell(masks[frame_count - z], Slot.height - 1 - y, Slot.width - 1 - x)

----------------------------------------------------------------------------
(* process_and_flip_image: an item without masks *)

\* C25 (no masks): as long as no mask was collected, no volume file and no label
\* file is written, and the run gets no further than the check of line 117: an
\* item without a raster layer annotation or with no frame stops there.
C25_NoMasksNoFiles ==
    masks = <<>> =>
        /\ nifti_file = NoImage /\ label_file = NoFile
        /\ pc \notin {"stacked", "image", "oriented", "legend", "written"}

\* the run on an item without a raster layer annotation stopped at line 119
C25_Witness == pc = "no_masks" /\ RasterCount(annotations) = 0 /\ Len(annotations) > 0

----------------------------------------------------------------------------
(* process_and_flip_image: where the mask of a frame lands *)

\* C26 (frame alignment): the mask decoded from the raster layer of frame i is the
\* entry of index i of the mask list (entry i + 1 of the 1-based sequence).
C26_FrameAlignment ==
    \A k \in 1..Len(visited) : Remapped(k) => visited[k].out = visited[k].frame + 1

----------------------------------------------------------------------------
(* process_and_flip_image: identities above 255 *)

\* the voxel of the saved volume that cell p of the mask at position m of the
\* mask list went to (lines 121-125), p the 0-based row-major offset
VoxelOf(m, p) ==
    nifti_file.dataobj.data[<<Slot.width - 1 - (p % Slot.width),
                              Slot.height - 1 - (p \div Slot.width),
                              Len(masks) - m>>]

\* C27 (no 8-bit truncation): every cell that the dense_rle of a remapped frame
\* gives to an object holds the object's GlobalIdentity in the output mask, and
\* so does its voxel in the volume that was saved (taken before reorientation),
\* however many annotations the item has.
C27_NoTruncation ==
    \A k \in 1..Len(visited) :
        Remapped(k) =>
            \A o \in DOMAIN visited[k].mapping : \A p \in CellsOf(k, o) :
                /\ masks[visited[k].out].data[p + 1] = global_mapping[o]
                /\ (nifti_file # NoImage /\ ~nifti_file.reoriented) =>
                       VoxelOf(visited[k].out, p) = global_mapping[o]

----------------------------------------------------------------------------
(* process_and_flip_image: the palette *)

\* C28 (legend defined): every GlobalIdentity is an index of the palette, the
\* label loop never fails on the palette lookup, and when the run has ended every
\* identity has its line in the label file.
C28_LegendDefined ==
    /\ pc \in {"legend", "written"} =>
          \A id \in DOMAIN global_mapping : global_mapping[id] \in 0..(Len(Set1) - 1)
    /\ label_file.opened => pc # "raised"
    /\ pc = "written" =>
          \A id \in DOMAIN global_mapping :
              \E k \in 1..Len(label_file.lines) :
                  label_file.lines[k].index = global_mapping[id]

----------------------------------------------------------------------------
(* process_and_flip_image: background and foreground *)

\* C29 (background / foreground partition): in the mask of every remapped frame a
\* cell is 0 exactly when the run of the dense_rle that covers it has value 0 or
\* no run covers it.
C29_PartitionKept ==
    \A k \in 1..Len(visited) :
        Remapped(k) =>
            \A p \in 0..(Slot.width * Slot.height - 1) :
                (masks[visited[k].out].data[p + 1] = 0)
                    <=> (RunValueAt(visited[k].rle, p) \in {0, -1})

----------------------------------------------------------------------------
(* The two RLE decoders *)

\* both decoders have run on a dense_rle list of values 0..255, the inline one
\* with total_pixels = width * height
BothDecoded ==
    /\ rpc = "done"
    /\ total_pixels = shape[1] * shape[2]
    /\ ~OutOfU8(rle_data)

\* C30 (the decoders agree): on a dense_rle list of values 0..255, with
\* total_pixels = width * height, the inline decoder of mask_class_conversion and
\* decode_rle of converting_json_to_nifti_itk_snap give the same mask, also when
\* the counts sum to less or to more than width * height.
C30_DecodersAgree == BothDecoded => decoded_inline = decoded

\* both ran on a list that starts with a run of value 0, goes on with a run of a
\* positive value and is too long for the mask, and returned a mask with a
\* foreground cell
C30_Witness ==
    /\ BothDecoded
    /\ Len(rle_data) = 4
    /\ rle_data[1] = 0 /\ rle_data[2] > 0 /\ rle_data[3] > 0
    /\ Sum2(rle_data) > shape[1] * shape[2]
    /\ decoded.status = "ok" /\ ~AllZero(decoded.mask)

====
